---- MODULE Spec2Model ----
(***************************************************************************)
(* Fantasy Hockey Matchup Simulator (main.py).                             *)
(*                                                                         *)
(* Specifications, over one set of variables:                              *)
(*   Spec    - one call of simulate_matchup or simulate_category_matchup   *)
(*             on arguments drawn from bounded sets, executed loop         *)
(*             iteration by loop iteration;                                *)
(*   SpecSM, SpecCM - Spec restricted to a call of one of the two;         *)
(*   AppSpec - the Streamlit script: every user interaction re-runs the    *)
(*             script top to bottom on the current widget values.          *)
(*                                                                         *)
(* Statistics and samples are integers (an abstract unit); a win fraction  *)
(* is the exact pair numerator/denominator, NaN being 0/0.                 *)
(***************************************************************************)
EXTENDS Integers, Sequences, FiniteSets, TLC

\* ------------------------------------------------------------------------
\* Bounds of the model
\* ------------------------------------------------------------------------
MaxTrialsSM == 1      \* simulate_matchup: num_simulations in -1..MaxTrialsSM
MaxTrialsCM == 3      \* simulate_category_matchup: likewise
MaxDays == 1          \* the day count ranges over -1..MaxDays
MaxInteractions == 2  \* widget interactions of one AppSpec session

\* ------------------------------------------------------------------------
\* Program constants
\* ------------------------------------------------------------------------
DefaultSimulations == 500
DefaultWindow == 7

Positions == <<"Center", "LW", "RW", "Defense", "Utility", "Bench", "Goalie">>

PositionSet == {Positions[i] : i \in 1..Len(Positions)}

DefaultSpots ==
    ("Center" :> 2) @@ ("LW" :> 2) @@ ("RW" :> 2) @@ ("Defense" :> 2) @@
    ("Utility" :> 2) @@ ("Bench" :> 3) @@ ("Goalie" :> 1)

DefaultCategories == <<"Goals", "Assists", "Shots", "Hits", "Blocks">>

category_preferences ==
    ("Goals" :> 1) @@ ("Assists" :> 1) @@ ("Shots" :> 1) @@ ("Hits" :> 1) @@
    ("Blocks" :> 1) @@ ("Wins" :> 1) @@ ("Saves" :> 1) @@ ("Shutouts" :> 1) @@
    ("Power Play Points" :> 1) @@ ("Faceoff Wins" :> 1) @@ ("Plus/Minus" :> 1) @@
    ("Penalty Minutes" :> -1) @@ ("Goals Against Average" :> -1) @@
    ("Save Percentage" :> 1)

\* category_preferences.get(cat, 1)
Preference(cat) ==
    IF cat \in DOMAIN category_preferences THEN category_preferences[cat] ELSE 1

\* ------------------------------------------------------------------------
\* Dictionaries, rosters
\* ------------------------------------------------------------------------
EmptyDict == <<>>

\* stats.get(cat, 0)
Get(stats, cat) == IF cat \in DOMAIN stats THEN stats[cat] ELSE 0

SeqRange(s) == {s[i] : i \in 1..Len(s)}

\* custom_scoring = {cat: 1 for cat in selected_categories}
custom_scoring(sel) == [c \in SeqRange(sel) |-> 1]

\* team_data = {pos: {} for every pos of roster_config}
NoPlayers == [p \in PositionSet |-> EmptyDict]

\* Python truth value of a dict: it has at least one key
Truthy(d) == DOMAIN d # {}

RECURSIVE DictValues(_, _)
DictValues(d, keys) ==
    IF keys = {} THEN <<>>
    ELSE LET k == CHOOSE x \in keys : \A y \in keys : x <= y
         IN  <<d[k]>> \o DictValues(d, keys \ {k})

RECURSIVE PlayersFrom(_, _)
PlayersFrom(team, i) ==
    IF i > Len(Positions) THEN <<>>
    ELSE DictValues(team[Positions[i]], DOMAIN team[Positions[i]])
         \o PlayersFrom(team, i + 1)

\* for pos, players in team.items(): for player, stats in players.items()
PlayerStats(team) == PlayersFrom(team, 1)

HasPlayer(team) == Len(PlayerStats(team)) > 0

\* ------------------------------------------------------------------------
\* np.random.normal(mu, 0.2 * mu, size)
\* ------------------------------------------------------------------------
\* raises ValueError: scale < 0, or a negative size
NormalRaises(mu, size) == mu < 0 \/ size < 0

\* the values one drawn element can take: sigma = 0 gives mu itself, any
\* other sigma a value below, at or above the mean
NormalSamples(mu) == IF mu = 0 THEN {0} ELSE {mu - 1, mu, mu + 1}

SetSum(A, B) == {a + b : a \in A, b \in B}

RECURSIVE DailySum(_, _)
\* np.sum of `size` independent draws
DailySum(mu, size) ==
    IF size <= 0 THEN {0} ELSE SetSum(NormalSamples(mu), DailySum(mu, size - 1))

\* ------------------------------------------------------------------------
\* State
\* ------------------------------------------------------------------------
VARIABLES
    fn,                   \* the simulator being called (Spec)
    pc,                   \* position in the called function / the script
    team1, team2,         \* rosters: position -> (player -> stat line)
    selected_categories,  \* module-level list read by both simulators
    start_date, end_date, \* day ordinals
    num_simulations,
    days,
    team1_total, team2_total, it,             \* simulate_matchup locals
    sim, ci,                                  \* simulate_category_matchup:
    team1_cat_score, team2_cat_score,         \*   loop positions and locals
    team1_cat_wins, team2_cat_wins, ties,
    team1_cat_wins_list, team2_cat_wins_list, ties_list,
    outcome,              \* "none", "returned" or "raised"
    result,               \* the returned tuple
    roster_config,        \* AppSpec: the number inputs
    entered,              \* AppSpec: the filled player slots
    run_pressed,          \* AppSpec: this run was started by the button
    calls,                \* AppSpec: simulators invoked by this run
    warning,              \* AppSpec: the "at least one player" warning
    interactions          \* AppSpec: widget edits so far

callVars == <<fn, pc, num_simulations, days, team1_total, team2_total, it, sim, ci,
              team1_cat_score, team2_cat_score, team1_cat_wins, team2_cat_wins,
              ties, team1_cat_wins_list, team2_cat_wins_list, ties_list,
              outcome, result>>

inputVars == <<team1, team2, selected_categories, start_date, end_date>>

appVars == <<roster_config, entered, run_pressed, calls, warning, interactions>>

vars == <<callVars, inputVars, appVars>>

\* ------------------------------------------------------------------------
\* Arguments of a call (Spec)
\* ------------------------------------------------------------------------
StatValues == {-1, 0, 2}

Selections == {<<>>, <<"Goals">>, <<"Penalty Minutes">>, <<"Takeaways">>,
               <<"Goals Against Average">>,
               <<"Goals", "Penalty Minutes">>}

StatLines(sel) == {EmptyDict} \cup [SeqRange(sel) -> StatValues]

PositionOf(i) == Positions[((i - 1) % Len(Positions)) + 1]

\* player i of the list sits at position i, under the name i
RosterOf(lines) ==
    [p \in PositionSet |->
        LET here == {i \in 1..Len(lines) : PositionOf(i) = p}
        IN  IF here = {} THEN EmptyDict ELSE [i \in here |-> lines[i]]]

\* the player lists of the input rosters: nobody, one player of any stat
\* line, or two players who average 2 in the first selected category only
RosterLines(sel) ==
    {<<>>} \cup {<<l>> : l \in StatLines(sel)}
           \cup {<<l, l>> : l \in {[c \in SeqRange(sel) |-> IF c = sel[1] THEN 2 ELSE 0]}}

Rosters(sel) == {RosterOf(lines) : lines \in RosterLines(sel)}

TrialBound(f) == IF f = "simulate_matchup" THEN MaxTrialsSM ELSE MaxTrialsCM

Zeros(n) == [i \in 1..n |-> 0]

LocalsInit ==
    /\ days = 0
    /\ team1_total = <<>> /\ team2_total = <<>> /\ it = 0
    /\ sim = 0 /\ ci = 0
    /\ team1_cat_score = 0 /\ team2_cat_score = 0
    /\ team1_cat_wins = 0 /\ team2_cat_wins = 0 /\ ties = 0
    /\ team1_cat_wins_list = <<>> /\ team2_cat_wins_list = <<>> /\ ties_list = <<>>
    /\ outcome = "none" /\ result = <<>>

AppIdle ==
    /\ roster_config = DefaultSpots
    /\ entered = {}
    /\ run_pressed = FALSE
    /\ calls = <<>>
    /\ warning = FALSE
    /\ interactions = 0

Init ==
    /\ fn \in {"simulate_matchup", "simulate_category_matchup"}
    /\ pc = "call"
    /\ selected_categories \in Selections
    /\ team1 \in Rosters(selected_categories)
    /\ team2 \in Rosters(selected_categories)
    /\ start_date = 2
    /\ end_date \in 0..(MaxDays + 1)
    /\ num_simulations \in -1..TrialBound(fn)
    /\ LocalsInit
    /\ AppIdle

\* ------------------------------------------------------------------------
\* simulate_matchup
\* ------------------------------------------------------------------------
\* a / n on numpy scalars: the exact fraction; 0 / 0 is nan
Div(a, n) == [num |-> a, den |-> n]

RECURSIVE Contributions(_, _, _)
\* sum(scoring.get(stat, 0) * simulated_stats.get(stat, 0) for stat in
\* selected_categories), per trial: simulated_stats has the player's own keys
Contributions(stats, sel, i) ==
    IF i > Len(sel) THEN {0}
    ELSE LET cat == sel[i]
             drawn == IF cat \in DOMAIN stats THEN NormalSamples(stats[cat]) ELSE {0}
             term == {Get(custom_scoring(sel), cat) * s : s \in drawn}
         IN  SetSum(term, Contributions(stats, sel, i + 1))

\* the dict comprehension draws for every key of the player's stat line
SimulatedStatsRaises(stats, n) ==
    \E stat \in DOMAIN stats : NormalRaises(stats[stat], n)

\* np.sum(a > b)
CountGreater(a, b) == Cardinality({i \in DOMAIN a : a[i] > b[i]})

\* slip: the second fraction adds the win count instead of subtracting it
MatchupResult_SignSlip(total1, total2, n) ==
    LET team1_wins == CountGreater(total1, total2)
    IN  <<Div(team1_wins, n), Div(n + team1_wins, n)>>

MatchupResult(total1, total2, n) ==
    LET team1_wins == CountGreater(total1, total2)
    IN  <<Div(team1_wins, n), Div(n - team1_wins, n)>>

\* number of (day, team, position, player) iterations of the nested loops
Iterations ==
    IF days > 0
    THEN days * (Len(PlayerStats(team1)) + Len(PlayerStats(team2)))
    ELSE 0

SM_Begin ==
    /\ pc = "call" /\ fn = "simulate_matchup"
    /\ days' = (end_date - start_date) + 1
    /\ it' = 0
    /\ IF num_simulations < 0
       THEN \* np.zeros: negative dimensions are not allowed
            /\ outcome' = "raised" /\ pc' = "done"
            /\ UNCHANGED <<team1_total, team2_total>>
       ELSE /\ team1_total' = Zeros(num_simulations)
            /\ team2_total' = Zeros(num_simulations)
            /\ pc' = "sm_loop"
            /\ UNCHANGED outcome
    /\ UNCHANGED <<fn, num_simulations, sim, ci, team1_cat_score, team2_cat_score,
                   team1_cat_wins, team2_cat_wins, ties, team1_cat_wins_list,
                   team2_cat_wins_list, ties_list, result>>
    /\ UNCHANGED <<inputVars, appVars>>

SM_PlayerDay ==
    /\ pc = "sm_loop" /\ it < Iterations
    /\ LET p1 == PlayerStats(team1)
           p2 == PlayerStats(team2)
           j == it % (Len(p1) + Len(p2))
           first == j < Len(p1)
           stats == IF first THEN p1[j + 1] ELSE p2[j - Len(p1) + 1]
       IN  IF SimulatedStatsRaises(stats, num_simulations)
           THEN /\ outcome' = "raised" /\ pc' = "done"
                /\ UNCHANGED <<team1_total, team2_total, it>>
           ELSE \E add \in [1..num_simulations ->
                              Contributions(stats, selected_categories, 1)] :
                  /\ team1_total' = IF first
                                    THEN [i \in 1..num_simulations |-> team1_total[i] + add[i]]
                                    ELSE team1_total
                  /\ team2_total' = IF first
                                    THEN team2_total
                                    ELSE [i \in 1..num_simulations |-> team2_total[i] + add[i]]
                  /\ it' = it + 1
                  /\ UNCHANGED <<outcome, pc>>
    /\ UNCHANGED <<fn, num_simulations, days, sim, ci, team1_cat_score, team2_cat_score,
                   team1_cat_wins, team2_cat_wins, ties, team1_cat_wins_list,
                   team2_cat_wins_list, ties_list, result>>
    /\ UNCHANGED <<inputVars, appVars>>

SM_Return ==
    /\ pc = "sm_loop" /\ it >= Iterations
    /\ result' = MatchupResult(team1_total, team2_total, num_simulations)
    /\ outcome' = "returned"
    /\ pc' = "done"
    /\ UNCHANGED <<fn, num_simulations, days, team1_total, team2_total, it, sim, ci,
                   team1_cat_score, team2_cat_score, team1_cat_wins, team2_cat_wins,
                   ties, team1_cat_wins_list, team2_cat_wins_list, ties_list>>
    /\ UNCHANGED <<inputVars, appVars>>

\* ------------------------------------------------------------------------
\* simulate_category_matchup
\* ------------------------------------------------------------------------
RECURSIVE ScoreSums(_, _, _, _)
\* the values the category score of a team can take: every player adds
\* np.sum(np.random.normal(stats.get(cat, 0), stats.get(cat, 0) * 0.2, days))
ScoreSums(players, cat, d, i) ==
    IF i > Len(players) THEN {0}
    ELSE SetSum(DailySum(Get(players[i], cat), d), ScoreSums(players, cat, d, i + 1))

TeamCatScores(team, cat, d) == ScoreSums(PlayerStats(team), cat, d, 1)

TeamCatRaises(team, cat, d) ==
    \E i \in 1..Len(PlayerStats(team)) : NormalRaises(Get(PlayerStats(team)[i], cat), d)

\* slip: the preference is ignored
Adjust_NoNegation(cat, score) == score

\* lines 192-195: scores of a "lower is better" category are negated
Adjust(cat, score) == IF Preference(cat) < 0 THEN score * (-1) ELSE score

\* slip: >= for >, equal scores go to team 1
Tally_GreaterEqual(score1, score2) ==
    IF score1 >= score2 THEN <<1, 0, 0>>
    ELSE IF score2 > score1 THEN <<0, 1, 0>>
    ELSE <<0, 0, 1>>

\* lines 197-202: the tally of one category, <<team1 wins, team2 wins, ties>>
Tally(score1, score2) ==
    IF score1 > score2 THEN <<1, 0, 0>>
    ELSE IF score2 > score1 THEN <<0, 1, 0>>
    ELSE <<0, 0, 1>>

RECURSIVE SeqSum(_, _)
SeqSum(s, i) == IF i > Len(s) THEN 0 ELSE s[i] + SeqSum(s, i + 1)

\* slip: int() for round(), the mean is truncated
RoundMean_Truncated(list) == SeqSum(list, 1) \div Len(list)

\* round(np.mean(list)) of a non-empty list: nearest integer, halves to even
RoundMean(list) ==
    LET n == Len(list)
        total == SeqSum(list, 1)
        q == total \div n
        r == total % n
    IN  IF 2 * r < n THEN q
        ELSE IF 2 * r > n THEN q + 1
        ELSE IF q % 2 = 0 THEN q ELSE q + 1

CM_Begin ==
    /\ pc = "call" /\ fn = "simulate_category_matchup"
    /\ days' = (end_date - start_date) + 1
    /\ team1_cat_wins_list' = <<>>
    /\ team2_cat_wins_list' = <<>>
    /\ ties_list' = <<>>
    /\ sim' = 0
    /\ pc' = "cm_trial"
    /\ UNCHANGED <<fn, num_simulations, team1_total, team2_total, it, ci,
                   team1_cat_score, team2_cat_score, team1_cat_wins, team2_cat_wins,
                   ties, outcome, result>>
    /\ UNCHANGED <<inputVars, appVars>>

\* for _ in range(num_simulations): the counters of a new trial
CM_Trial ==
    /\ pc = "cm_trial" /\ sim < num_simulations
    /\ team1_cat_wins' = 0
    /\ team2_cat_wins' = 0
    /\ ties' = 0
    /\ ci' = 1
    /\ pc' = "cm_cat"
    /\ UNCHANGED <<fn, num_simulations, days, team1_total, team2_total, it, sim,
                   team1_cat_score, team2_cat_score, team1_cat_wins_list,
                   team2_cat_wins_list, ties_list, outcome, result>>
    /\ UNCHANGED <<inputVars, appVars>>

\* lines 178-190: the raw category scores of both teams
CM_Sum ==
    /\ pc = "cm_cat" /\ ci <= Len(selected_categories)
    /\ LET cat == selected_categories[ci]
       IN  IF TeamCatRaises(team1, cat, days) \/ TeamCatRaises(team2, cat, days)
           THEN /\ outcome' = "raised" /\ pc' = "done"
                /\ UNCHANGED <<team1_cat_score, team2_cat_score>>
           ELSE /\ team1_cat_score' \in TeamCatScores(team1, cat, days)
                /\ team2_cat_score' \in TeamCatScores(team2, cat, days)
                /\ pc' = "cm_compare"
                /\ UNCHANGED outcome
    /\ UNCHANGED <<fn, num_simulations, days, team1_total, team2_total, it, sim, ci,
                   team1_cat_wins, team2_cat_wins, ties, team1_cat_wins_list,
                   team2_cat_wins_list, ties_list, result>>
    /\ UNCHANGED <<inputVars, appVars>>

\* lines 192-202: adjust for the preference, compare, count
CM_Compare ==
    /\ pc = "cm_compare"
    /\ LET cat == selected_categories[ci]
           score1 == Adjust(cat, team1_cat_score)
           score2 == Adjust(cat, team2_cat_score)
           t == Tally(score1, score2)
       IN  /\ team1_cat_score' = score1
           /\ team2_cat_score' = score2
           /\ team1_cat_wins' = team1_cat_wins + t[1]
           /\ team2_cat_wins' = team2_cat_wins + t[2]
           /\ ties' = ties + t[3]
    /\ ci' = ci + 1
    /\ pc' = "cm_cat"
    /\ UNCHANGED <<fn, num_simulations, days, team1_total, team2_total, it, sim,
                   team1_cat_wins_list, team2_cat_wins_list, ties_list, outcome, result>>
    /\ UNCHANGED <<inputVars, appVars>>

\* lines 204-206
CM_EndTrial ==
    /\ pc = "cm_cat" /\ ci > Len(selected_categories)
    /\ team1_cat_wins_list' = Append(team1_cat_wins_list, team1_cat_wins)
    /\ team2_cat_wins_list' = Append(team2_cat_wins_list, team2_cat_wins)
    /\ ties_list' = Append(ties_list, ties)
    /\ sim' = sim + 1
    /\ pc' = "cm_trial"
    /\ UNCHANGED <<fn, num_simulations, days, team1_total, team2_total, it, ci,
                   team1_cat_score, team2_cat_score, team1_cat_wins, team2_cat_wins,
                   ties, outcome, result>>
    /\ UNCHANGED <<inputVars, appVars>>

\* lines 208-211; the mean of an empty list is nan, and round(nan) raises
CM_Return ==
    /\ pc = "cm_trial" /\ sim >= num_simulations
    /\ IF Len(ties_list) = 0
       THEN /\ outcome' = "raised"
            /\ UNCHANGED result
       ELSE /\ outcome' = "returned"
            /\ result' = <<RoundMean(team1_cat_wins_list),
                           RoundMean(team2_cat_wins_list),
                           RoundMean(ties_list)>>
    /\ pc' = "done"
    /\ UNCHANGED <<fn, num_simulations, days, team1_total, team2_total, it, sim, ci,
                   team1_cat_score, team2_cat_score, team1_cat_wins, team2_cat_wins,
                   ties, team1_cat_wins_list, team2_cat_wins_list, ties_list>>
    /\ UNCHANGED <<inputVars, appVars>>

NextSM == SM_Begin \/ SM_PlayerDay \/ SM_Return

NextCM == CM_Begin \/ CM_Trial \/ CM_Sum \/ CM_Compare \/ CM_EndTrial \/ CM_Return

Next ==
    \/ SM_Begin
    \/ SM_PlayerDay
    \/ SM_Return
    \/ CM_Begin
    \/ CM_Trial
    \/ CM_Sum
    \/ CM_Compare
    \/ CM_EndTrial
    \/ CM_Return

\* a call of either simulator
Spec == Init /\ [][Next]_vars

\* a call of simulate_matchup
InitSM == Init /\ fn = "simulate_matchup"

SpecSM == InitSM /\ [][NextSM]_vars

\* a call of simulate_category_matchup
InitCM == Init /\ fn = "simulate_category_matchup"

SpecCM == InitCM /\ [][NextCM]_vars

\* ------------------------------------------------------------------------
\* The script (AppSpec)
\* ------------------------------------------------------------------------
Teams == {"Team 1", "Team 2"}

\* players the search can offer, and what get_player_stats can return for one:
\* {} after a failed request, else a value for every selected category
SearchResults == {101, 102}

FetchedStats(sel) == {EmptyDict, [c \in SeqRange(sel) |-> 2]}

\* the slots of `ent` that the script renders under roster `cfg`
Rendered(cfg, ent) == {e \in ent : e.i < cfg[e.pos]}

\* lines 222-242: team_data of one team; a later slot holding the same
\* player overwrites the earlier one
TeamData(team, cfg, ent) ==
    [p \in PositionSet |->
        LET slots == {e \in Rendered(cfg, ent) : e.team = team /\ e.pos = p}
            names == {e.player : e \in slots}
            last(n) == CHOOSE e \in slots :
                          /\ e.player = n
                          /\ \A f \in slots : f.player = n => f.i <= e.i
        IN  IF names = {} THEN EmptyDict ELSE [n \in names |-> last(n).stats]]

\* simulate_matchup as a whole: does the call raise
MatchupRaises(t1, t2, d, n) ==
    \/ n < 0
    \/ /\ d > 0
       /\ \E i \in 1..Len(PlayerStats(t1) \o PlayerStats(t2)) :
             SimulatedStatsRaises((PlayerStats(t1) \o PlayerStats(t2))[i], n)

\* lines 253-286: what one run of the script does after the team input loop
Handler(pressed, t1, t2) ==
    IF ~pressed THEN [calls |-> <<>>, warning |-> FALSE]
    ELSE IF Truthy(t1) /\ Truthy(t2)
    THEN [calls |-> IF MatchupRaises(t1, t2, (end_date - start_date) + 1,
                                       DefaultSimulations)
                    THEN <<"simulate_matchup">>
                    ELSE <<"simulate_matchup", "simulate_category_matchup">>,
          warning |-> FALSE]
    ELSE [calls |-> <<>>, warning |-> TRUE]

\* one run of the script, top to bottom, on the widget values
Rerun(cfg, ent, pressed) ==
    /\ roster_config' = cfg
    /\ entered' = Rendered(cfg, ent)
    /\ run_pressed' = pressed
    /\ team1' = TeamData("Team 1", cfg, ent)
    /\ team2' = TeamData("Team 2", cfg, ent)
    /\ calls' = Handler(pressed, team1', team2').calls
    /\ warning' = Handler(pressed, team1', team2').warning
    /\ interactions' = IF pressed THEN interactions ELSE interactions + 1
    /\ UNCHANGED <<callVars, selected_categories, start_date, end_date>>

AppInit ==
    /\ fn = "script"
    /\ pc = "script"
    /\ selected_categories = DefaultCategories
    /\ start_date = 0
    /\ end_date = DefaultWindow
    /\ num_simulations = DefaultSimulations
    /\ LocalsInit
    /\ AppIdle
    /\ team1 = NoPlayers
    /\ team2 = NoPlayers

\* a number input of the roster configuration is stepped up or down
SetSpots ==
    /\ interactions < MaxInteractions
    /\ \E p \in PositionSet, delta \in {-1, 1} :
          /\ roster_config[p] + delta >= 0
          /\ Rerun([roster_config EXCEPT ![p] = @ + delta], entered, FALSE)

\* a name is typed into the text input of a slot; the search finds players
\* and one is selected, or it finds none and the slot stays empty
EnterPlayer ==
    /\ interactions < MaxInteractions
    /\ \E t \in Teams, p \in PositionSet :
       \E i \in 0..(roster_config[p] - 1) :
       \E found \in BOOLEAN, n \in SearchResults,
          st \in FetchedStats(selected_categories) :
          LET others == {e \in entered : ~(e.team = t /\ e.pos = p /\ e.i = i)}
              slot == [team |-> t, pos |-> p, i |-> i, player |-> n, stats |-> st]
          IN  Rerun(roster_config, IF found THEN others \cup {slot} ELSE others, FALSE)

\* the "Run Simulation" button
RunSimulation ==
    /\ Rerun(roster_config, entered, TRUE)

AppNext == SetSpots \/ EnterPlayer \/ RunSimulation

AppSpec == AppInit /\ [][AppNext]_vars

\* ------------------------------------------------------------------------
\* Properties
\* ------------------------------------------------------------------------
SMDone == fn = "simulate_matchup" /\ pc = "done"

CMDone == fn = "simulate_category_matchup" /\ pc = "done"

Returned == outcome = "returned"

AllStats == PlayerStats(team1) \o PlayerStats(team2)

NonNegativeStats ==
    \A i \in 1..Len(AllStats) : \A c \in DOMAIN AllStats[i] : AllStats[i][c] >= 0

NegativeSelectedStat ==
    \E i \in 1..Len(AllStats) :
       \E c \in DOMAIN AllStats[i] \cap SeqRange(selected_categories) : AllStats[i][c] < 0

BothEmpty == ~HasPlayer(team1) /\ ~HasPlayer(team2)

ValidWindow == end_date >= start_date

ValidInput == ValidWindow /\ num_simulations >= 1 /\ NonNegativeStats

NumCategories == Len(selected_categories)

Abs(x) == IF x < 0 THEN -x ELSE x

\* C1: a returned pair of fractions is (#trials total1 > total2)/N and
\* (#trials total2 > total1)/N, so a tied trial counts for neither team and two
\* empty rosters give 0 and 0.
C1_TiesCountForNeither ==
    (SMDone /\ Returned /\ num_simulations >= 1) =>
        /\ result[1] = Div(CountGreater(team1_total, team2_total), num_simulations)
        /\ result[2] = Div(CountGreater(team2_total, team1_total), num_simulations)

\* C2: on valid input simulate_matchup returns two fractions, each in [0, 1],
\* whose sum is at most 1.
C2_FractionsBounded ==
    (SMDone /\ ValidInput) =>
        /\ Returned
        /\ \A k \in 1..2 :
              /\ result[k].den > 0
              /\ 0 <= result[k].num
              /\ result[k].num <= result[k].den
        /\ result[1].num * result[2].den + result[2].num * result[1].den
              <= result[1].den * result[2].den

C2_Witness ==
    /\ SMDone /\ ValidInput /\ Returned
    /\ HasPlayer(team1) /\ HasPlayer(team2)
    /\ NumCategories >= 1
    /\ result[1].num >= 1

\* C3: on valid input simulate_category_matchup returns three non-negative
\* integers, each the nearest integer to the mean of its per-trial tally; every
\* per-trial triple sums to the number of selected categories and the returned
\* sum is within 1 of it.
C3_RoundedMeans ==
    (CMDone /\ ValidInput) =>
        LET lists == <<team1_cat_wins_list, team2_cat_wins_list, ties_list>>
        IN  /\ Returned
            /\ \A k \in 1..3 :
                  /\ Len(lists[k]) = num_simulations
                  /\ result[k] \in Nat
                  /\ 2 * Abs(num_simulations * result[k] - SeqSum(lists[k], 1))
                        <= num_simulations
            /\ \A j \in 1..num_simulations :
                  lists[1][j] + lists[2][j] + lists[3][j] = NumCategories
            /\ Abs(result[1] + result[2] + result[3] - NumCategories) <= 1

C3_Witness ==
    /\ CMDone /\ ValidInput /\ Returned
    /\ HasPlayer(team1) /\ HasPlayer(team2)
    /\ result[1] + result[2] + result[3] # NumCategories

\* C4: when a category is compared, equal raw totals are a tie; otherwise the
\* smaller raw total wins a "lower is better" category (Penalty Minutes, Goals
\* Against Average) and the larger raw total wins any other category, listed
\* in the preference table or not.
C4_Directionality ==
    [][pc = "cm_compare" =>
        LET cat == selected_categories[ci]
            lower == cat \in {"Penalty Minutes", "Goals Against Average"}
            counted == <<team1_cat_wins' - team1_cat_wins,
                         team2_cat_wins' - team2_cat_wins,
                         ties' - ties>>
        IN  /\ team1_cat_score = team2_cat_score => counted = <<0, 0, 1>>
            /\ team1_cat_score < team2_cat_score =>
                  counted = IF lower THEN <<1, 0, 0>> ELSE <<0, 1, 0>>
            /\ team1_cat_score > team2_cat_score =>
                  counted = IF lower THEN <<0, 1, 0>> ELSE <<1, 0, 0>>]_vars

\* Penalty Minutes just compared: team 1 drew the smaller raw total (the
\* scores are stored negated) and holds the win
C4_Witness ==
    /\ fn = "simulate_category_matchup" /\ pc = "cm_cat"
    /\ selected_categories = <<"Penalty Minutes">> /\ ci = 2
    /\ team1_cat_score < 0
    /\ team1_cat_score > team2_cat_score
    /\ team1_cat_wins = 1

\* C5: a call with end_date before start_date ends in an error, whatever the
\* rosters.
C5_InvalidWindowRaises ==
    (pc = "done" /\ end_date < start_date) => outcome = "raised"

\* C6: a call with num_simulations <= 0 ends in an error, never in a result.
C6_InvalidTrialCountRaises ==
    (pc = "done" /\ num_simulations <= 0) => outcome = "raised"

\* C7: a negative season average in a selected category is sampled like any
\* other: the call returns a result.
C7_NegativeMeanAccepted ==
    (pc = "done" /\ num_simulations >= 1 /\ ValidWindow /\ NegativeSelectedStat)
        => Returned

\* C8: with N >= 1 and a valid window simulate_category_matchup returns
\* (0, 0, K) when neither roster holds a player and (0, 0, 0) when no category
\* is selected, K being the number of selected categories.
C8_EmptyCases ==
    (CMDone /\ num_simulations >= 1 /\ ValidWindow) =>
        /\ BothEmpty => (Returned /\ result = <<0, 0, NumCategories>>)
        /\ NumCategories = 0 => (Returned /\ result = <<0, 0, 0>>)

C8_Witness ==
    /\ CMDone /\ num_simulations >= 1 /\ ValidWindow
    /\ BothEmpty
    /\ NumCategories = 2
    /\ result = <<0, 0, 2>>

\* C9: the call with the teams swapped and the same samples replayed returns
\* the two fractions swapped.
C9_SwapSymmetry ==
    (SMDone /\ Returned /\ num_simulations >= 1) =>
        MatchupResult(team2_total, team1_total, num_simulations)
            = <<result[2], result[1]>>

\* C10: a run started by the button invokes simulate_matchup and then
\* simulate_category_matchup if each team has a player entered; otherwise it
\* invokes neither and shows the warning.
C10_RunGuard ==
    run_pressed =>
        IF HasPlayer(team1) /\ HasPlayer(team2)
        THEN calls = <<"simulate_matchup", "simulate_category_matchup">> /\ ~warning
        ELSE calls = <<>> /\ warning

====
